---- MODULE Spec2Model ----
(***************************************************************************)
(* A model of the DesktopOrganizer core: the move/undo subsystem of        *)
(* mover.py (UndoLog, FileMover) and the classification cascade of         *)
(* analyzer.py / categories.py.                                            *)
(*                                                                         *)
(* The filesystem is a partial function from paths to file contents plus   *)
(* a set of existing directories.  A path is a directory and a file name;  *)
(* a file name is a stem, the list of "_k" collision counters appended to  *)
(* the stem, and an extension, so "a_1_2.txt" is                           *)
(* [stem |-> "a", sfx |-> <<1, 2>>, ext |-> ".txt"].                       *)
(* The payload fields of a MoveOperation that no operation ever reads      *)
(* (reasoning, timestamp) and the session's timestamp are left out.        *)
(***************************************************************************)
EXTENDS Integers, Sequences, FiniteSets, TLC

VARIABLES
    fs,          \* filesystem: [existing file paths -> content]
    dirs,        \* filesystem: set of existing directories
    logFile,     \* the persisted Session Log: Absent or the document's sessions
    sessions,    \* UndoLog._sessions of the live FileMover
    current,     \* FileMover._current_session: 0 = None, i = sessions[i], Orphan
    dry_run,     \* FileMover.dry_run
    ret,         \* the last call and what it returned
    wrote,       \* whether the last call wrote the log file (UndoLog._save ran)
    run,         \* history: the last real-mode run, with the filesystem at its start
    pc,          \* organizer.py: where the process that owns the mover is
    pending,     \* organizer.py: the scanned paths organize_files has yet to move
    plan,        \* history: what the last dry run returned, and the filesystem it saw
    an,          \* FileAnalyzer: _client / _ollama_available
    result       \* the last result of FileAnalyzer.analyze_file, with its inputs

moverVars == <<fs, dirs, logFile, sessions, current, dry_run, ret, wrote, run>>
organizerVars == <<pc, pending>>
analyzerVars == <<an, result>>
vars == <<fs, dirs, logFile, sessions, current, dry_run, ret, wrote, run, pc, pending,
          plan,          an, result>>

----------------------------------------------------------------------------
(* Bounds *)

MaxSessions == 2    \* sessions held by the log at one time

----------------------------------------------------------------------------
(* Paths and directories *)

SrcDir == "src"
SubDir == "src/sub"
OutputDir == "src/Organized"
RootDir == "/"

\* Category.path of the categories the mover is exercised with
CategoryPath(c) ==
    CASE c = "work" -> "Documents/Work"
      [] c = "misc" -> "Misc"

MoverCategories == {"work", "misc"}

\* self.output_dir / category_path
Join(d, rel) ==
    CASE rel = "Documents/Work" -> "src/Organized/Documents/Work"
      [] rel = "Documents"      -> "src/Organized/Documents"
      [] rel = "Misc"           -> "src/Organized/Misc"

Dirs == {SrcDir, SubDir, OutputDir, "src/Organized/Documents",
         "src/Organized/Documents/Work", "src/Organized/Misc"}

\* Path.parent
ParentDir(d) ==
    CASE d = SrcDir -> RootDir
      [] d = SubDir -> SrcDir
      [] d = OutputDir -> SrcDir
      [] d = "src/Organized/Documents" -> OutputDir
      [] d = "src/Organized/Documents/Work" -> "src/Organized/Documents"
      [] d = "src/Organized/Misc" -> OutputDir
      [] OTHER -> RootDir

RECURSIVE Ancestors(_)
\* the directory and every parent above it, up to the filesystem root
Ancestors(d) == IF d = RootDir THEN {} ELSE {d} \cup Ancestors(ParentDir(d))

\* Path.mkdir(parents=True, exist_ok=True)
Mkdir(ds, d) == ds \cup Ancestors(d)

FileName(stem) == [stem |-> stem, sfx |-> <<>>, ext |-> ".txt"]
PathOf(d, n) == [dir |-> d, name |-> n]

----------------------------------------------------------------------------
(* MoveOperation, OrganizationSession and their documents *)

\* MoveOperation(source=..., destination=..., category=...)
MoveOperation(source, destination, category) ==
    [source |-> source, destination |-> destination, category |-> category]

\* MoveOperation.to_dict: asdict(self)
OpToDict(op) ==
    [source |-> op.source, destination |-> op.destination, category |-> op.category]

\* MoveOperation.from_dict: cls(**data)
OpFromDict(data) == MoveOperation(data.source, data.destination, data.category)

\* a variant of to_dict that writes the operations newest first
NewestFirstDict(s) ==
    [session_id |-> s.session_id,
     source_directory |-> s.source_directory,
     output_directory |-> s.output_directory,
     operations |-> [i \in 1..Len(s.operations) |->
                        OpToDict(s.operations[Len(s.operations) + 1 - i])],
     completed |-> s.completed]

\* OrganizationSession.to_dict
SessionToDict(s) ==
    [session_id |-> s.session_id,
     source_directory |-> s.source_directory,
     output_directory |-> s.output_directory,
     operations |-> [i \in 1..Len(s.operations) |-> OpToDict(s.operations[i])],
     completed |-> s.completed]

\* OrganizationSession.from_dict: operations and completed are optional keys
SessionFromDict(data) ==
    LET ops == IF "operations" \in DOMAIN data THEN data.operations ELSE <<>>
    IN [session_id |-> data.session_id,
        source_directory |-> data.source_directory,
        output_directory |-> data.output_directory,
        operations |-> [i \in 1..Len(ops) |-> OpFromDict(ops[i])],
        completed |-> IF "completed" \in DOMAIN data THEN data.completed ELSE FALSE]

----------------------------------------------------------------------------
(* UndoLog *)

AbsentLog == [kind |-> "absent", sessions |-> <<>>]

\* what a log file that is not the document _save wrote may be: text that is
\* no JSON, a JSON document with a session that lacks a required key, a JSON
\* value that is no object, a file that cannot be read or decoded
CorruptKinds == {"text", "keyless", "array", "unreadable"}

CorruptLog(kind) == [kind |-> kind, sessions |-> <<>>]

\* UndoLog._load lets an exception escape: only json.JSONDecodeError and
\* KeyError are caught
LoadRaises(file) == file.kind \in {"array", "unreadable"}

\* UndoLog._load: no file, the sessions of the document, or none after a
\* JSONDecodeError or a KeyError
Load(file) ==
    IF file.kind = "document"
    THEN [i \in 1..Len(file.sessions) |-> SessionFromDict(file.sessions[i])]
    ELSE <<>>

\* UndoLog._save: the whole log, rewritten
Save(ss) ==
    [kind |-> "document", sessions |-> [i \in 1..Len(ss) |-> SessionToDict(ss[i])]]

\* UndoLog.create_session: the new session, appended
CreateSession(ss, now, source_dir, output_dir) ==
    Append(ss, [session_id |-> now,
                source_directory |-> source_dir,
                output_directory |-> output_dir,
                operations |-> <<>>,
                completed |-> FALSE])

\* UndoLog.add_operation: session.operations.append(operation)
AddOperation(ss, i, operation) ==
    [ss EXCEPT ![i].operations = Append(@, operation)]

\* UndoLog.complete_session: session.completed = True
CompleteSession(ss, i) == [ss EXCEPT ![i].completed = TRUE]

\* a variant that scans the log from its oldest entry
FirstCompleted(ss) ==
    IF \E i \in 1..Len(ss) : ss[i].completed
    THEN CHOOSE i \in 1..Len(ss) : ss[i].completed /\ \A k \in 1..(i - 1) : ~ss[k].completed
    ELSE 0

\* a variant that takes the newest entry whatever its state
NewestSession(ss) == Len(ss)

RECURSIVE LastCompletedFrom(_, _)
\* the loop of get_last_session over reversed(self._sessions), from index i down
LastCompletedFrom(ss, i) ==
    IF i = 0 THEN 0
    ELSE IF ss[i].completed THEN i
    ELSE LastCompletedFrom(ss, i - 1)

\* UndoLog.get_last_session: the index of the session returned, 0 for None
GetLastSession(ss) == LastCompletedFrom(ss, Len(ss))

\* a variant that leaves the log as it is
KeepSessions(ss, session) == ss

\* UndoLog.remove_session: every session with another session_id is kept
RemoveSession(ss, session) ==
    SelectSeq(ss, LAMBDA s : s.session_id # session.session_id)

----------------------------------------------------------------------------
(* FileMover helpers *)

Orphan == -1    \* _current_session is an object that is no longer in _sessions

RECURSIVE NextFree(_, _, _)
\* the while loop of _get_unique_path
NextFree(files, path, counter) ==
    LET new_path == [path EXCEPT !.name.sfx = Append(@, counter)]
    IN IF new_path \notin files THEN new_path
       ELSE NextFree(files, path, counter + 1)

\* a variant that keeps the name whether or not it is taken
KeepPath(files, path) == path

\* FileMover._get_unique_path
GetUniquePath(files, path) ==
    IF path \notin files THEN path ELSE NextFree(files, path, 1)

\* shutil.move(source, destination) of a file: a rename, which replaces an
\* existing destination file
ShutilMove(files, source, destination) ==
    [p \in (DOMAIN files \ {source}) \cup {destination} |->
        IF p = destination THEN files[source] ELSE files[p]]

Children(ds, d) == {c \in ds : ParentDir(c) = d}

\* any(directory.iterdir()) is false
IsEmptyDir(ds, files, logExists, d) ==
    /\ Children(ds, d) = {}
    /\ ~ \E p \in files : p.dir = d
    /\ ~ (logExists /\ d = OutputDir)

\* a variant that looks at the directory given and not below it
CleanupTopOnly(ds, files, logExists, output_dir, directory) ==
    IF directory \in ds /\ IsEmptyDir(ds, files, logExists, directory)
                        /\ directory # output_dir
    THEN ds \ {directory}
    ELSE ds

RECURSIVE CleanupEmptyDirs(_, _, _, _, _)
RECURSIVE CleanupChildren(_, _, _, _, _)
\* the for loop of _cleanup_empty_dirs over directory.iterdir()
CleanupChildren(ds, files, logExists, output_dir, todo) ==
    IF todo = {} THEN ds
    ELSE LET child == CHOOSE c \in todo : TRUE
         IN CleanupChildren(CleanupEmptyDirs(ds, files, logExists, output_dir, child),
                            files, logExists, output_dir, todo \ {child})

\* FileMover._cleanup_empty_dirs: the directories left
CleanupEmptyDirs(ds, files, logExists, output_dir, directory) ==
    IF directory \notin ds THEN ds
    ELSE LET ds1 == CleanupChildren(ds, files, logExists, output_dir,
                                    Children(ds, directory))
         IN IF IsEmptyDir(ds1, files, logExists, directory) /\ directory # output_dir
            THEN ds1 \ {directory}
            ELSE ds1

\* where _current_session is after remove_session rebuilt the list
Reindex(ss, i, session) ==
    IF i <= 0 THEN i
    ELSE IF ss[i].session_id = session.session_id THEN Orphan
    ELSE Cardinality({k \in 1..i : ss[k].session_id # session.session_id})

\* a variant that keeps the order in which the operations were appended
Forward(ops) == ops

\* reversed(session.operations)
Reversed(ops) == [k \in 1..Len(ops) |-> ops[Len(ops) + 1 - k]]

\* the body of the for loop of undo_last_session for one operation; fault says
\* that moving the file back raises
UndoOne(operation, fault, acc) ==
    LET source == operation.source
        dest == operation.destination
    IN IF dest \in DOMAIN acc.fs
       THEN IF fault
            THEN [acc EXCEPT !.dirs = Mkdir(@, source.dir),
                               !.errors = Append(@, [kind |-> "Failed to restore",
                                                     path |-> dest]),
                               !.outcomes = Append(@, "failed")]
            ELSE [acc EXCEPT !.dirs = Mkdir(@, source.dir),
                               !.fs = ShutilMove(@, dest, source),
                               !.moves = Append(@, <<dest, source>>),
                               !.outcomes = Append(@, "moved")]
       ELSE [acc EXCEPT !.errors = Append(@, [kind |-> "File not found",
                                               path |-> dest]),
                        !.outcomes = Append(@, "missing")]

\* a variant of the loop that stops at the first error
RECURSIVE UndoFailFast(_, _, _, _)
UndoFailFast(todo, k, faults, acc) ==
    IF k > Len(todo) \/ Len(acc.errors) > 0 THEN acc
    ELSE UndoFailFast(todo, k + 1, faults, UndoOne(todo[k], k \in faults, acc))

RECURSIVE UndoLoop(_, _, _, _)
\* the for loop of undo_last_session over todo, from its k-th element on
UndoLoop(todo, k, faults, acc) ==
    IF k > Len(todo) THEN acc
    ELSE UndoLoop(todo, k + 1, faults, UndoOne(todo[k], k \in faults, acc))

\* the value undo_last_session returns after the loop
UndoResult(moves, errors) ==
    IF Len(errors) > 0
    THEN [success |-> FALSE,
          message |-> [text |-> "Undo completed with errors", n |-> Len(errors)],
          moves |-> moves]
    ELSE [success |-> TRUE,
          message |-> [text |-> "Successfully undid file moves", n |-> Len(moves)],
          moves |-> moves]

----------------------------------------------------------------------------
(* History of the last real-mode run: the filesystem when start_session     *)
(* created its session, and where that session is in the log.               *)

NoPlan == [made |-> FALSE]

NoRun(files) == [status |-> "none", fs0 |-> files, idx |-> 0]

Void(r) == [r EXCEPT !.status = "void", !.idx = 0]

----------------------------------------------------------------------------
(* FileAnalyzer state, filled in by the analyzer's specification *)

NoAnalyzer == [client |-> "None", ollama_available |-> "None"]
NoResult == [method |-> "none"]

----------------------------------------------------------------------------
(* The initial filesystem *)

NameA == FileName("a")
MiscDir == "src/Organized/Misc"

\* files that may exist before the first call, with their contents
InitialFiles ==
    (PathOf(SrcDir, NameA) :> "c1") @@ (PathOf(SubDir, NameA) :> "c2")
    @@ (PathOf(MiscDir, NameA) :> "c3")

Restrict(f, S) == [x \in S |-> f[x]]

DirsOf(files) == UNION {Ancestors(p.dir) : p \in files}

Init ==
    /\ \E S \in SUBSET DOMAIN InitialFiles :
          /\ fs = Restrict(InitialFiles, S)
          /\ dirs = {SrcDir} \cup DirsOf(S)
          /\ run = NoRun(Restrict(InitialFiles, S))
    /\ logFile = AbsentLog
    /\ sessions = <<>>
    /\ current = 0
    /\ dry_run = FALSE
    /\ ret = [call |-> "new", raised |-> FALSE]
    /\ pc = "idle"
    /\ pending = {}
    /\ plan = NoPlan
    /\ wrote = FALSE
    /\ an = NoAnalyzer
    /\ result = NoResult

----------------------------------------------------------------------------
(* FileMover operations *)

\* a variant in which the flag is ignored
NeverDry == FALSE

\* the test of self.dry_run in start_session, end_session and move_file
DryRun == dry_run

\* FileMover.__init__: a new mover on the same output directory loads the log
NewMover(dry) ==
    /\ sessions' = IF LoadRaises(logFile) THEN <<>> ELSE Load(logFile)
    /\ current' = 0
    /\ dry_run' = dry
    /\ ret' = [call |-> "new", raised |-> LoadRaises(logFile)]
    /\ wrote' = FALSE
    /\ run' = IF run.status = "active" THEN Void(run) ELSE run
    /\ UNCHANGED <<fs, dirs, logFile, an, result>>

\* FileMover.start_session
StartSession(source_dir, now) ==
    /\ ret' = [call |-> "start"]
    /\ IF DryRun
       THEN /\ wrote' = FALSE
            /\ UNCHANGED <<fs, dirs, logFile, sessions, current, run>>
       ELSE /\ Len(sessions) < MaxSessions
            /\ sessions' = CreateSession(sessions, now, source_dir, OutputDir)
            /\ current' = Len(sessions')
            /\ dirs' = Mkdir(dirs, OutputDir)
            /\ logFile' = Save(sessions')
            /\ wrote' = TRUE
            /\ run' = [status |-> "active", fs0 |-> fs, idx |-> Len(sessions')]
            /\ UNCHANGED fs
    /\ UNCHANGED <<dry_run, an, result>>

\* FileMover.end_session
EndSession ==
    /\ ret' = [call |-> "end"]
    /\ IF current # 0 /\ ~DryRun
       THEN /\ sessions' = IF current = Orphan THEN sessions
                           ELSE CompleteSession(sessions, current)
            /\ dirs' = Mkdir(dirs, OutputDir)
            /\ logFile' = Save(sessions')
            /\ wrote' = TRUE
            /\ run' = IF run.status = "active" /\ current = run.idx
                      THEN [run EXCEPT !.status = "ended"]
                      ELSE run
       ELSE /\ wrote' = FALSE
            /\ UNCHANGED <<dirs, logFile, sessions, run>>
    /\ UNCHANGED <<fs, current, dry_run, an, result>>

\* the history of the run after a real-mode move_file of the file at path
RunAfterMove(r) == IF r.status \in {"ended", "undone"} THEN Void(r) ELSE r

Faults == {"none", "mkdir", "move", "log"}

\* FileMover.move_file; fault names the statement of the try block that raises
\* PermissionError or OSError: dest_dir.mkdir, shutil.move or add_operation
\* (whose _save writes the log file)
MoveFile(res, fault) ==
    LET source == res.path
        dest_dir == Join(OutputDir, CategoryPath(res.category))
        dest_file == GetUniquePath(DOMAIN fs, PathOf(dest_dir, source.name))
        operation == MoveOperation(source, dest_file, res.category)
        made == Mkdir(dirs, dest_dir)
        moved == ShutilMove(fs, source, dest_file)
        logged == IF current > 0 THEN AddOperation(sessions, current, operation)
                  ELSE sessions
        returned(b) == IF b THEN [call |-> "move", returned |-> TRUE, op |-> operation]
                       ELSE [call |-> "move", returned |-> FALSE]
    IN /\ IF DryRun
          THEN /\ fault = "none"
               /\ ret' = returned(TRUE)
               /\ wrote' = FALSE
               /\ UNCHANGED <<fs, dirs, logFile, sessions, run>>
          ELSE /\ fault = "log" => current # 0 /\ source \in DOMAIN fs
               /\ run' = RunAfterMove(run)
               /\ CASE fault = "mkdir" ->
                         /\ ret' = returned(FALSE)
                         /\ wrote' = FALSE
                         /\ UNCHANGED <<fs, dirs, logFile, sessions>>
                    [] fault # "mkdir" /\ (fault = "move" \/ source \notin DOMAIN fs) ->
                         /\ dirs' = made
                         /\ ret' = returned(FALSE)
                         /\ wrote' = FALSE
                         /\ UNCHANGED <<fs, logFile, sessions>>
                    [] fault = "log" /\ source \in DOMAIN fs ->
                         /\ dirs' = made
                         /\ fs' = moved
                         /\ sessions' = logged
                         /\ ret' = returned(FALSE)
                         /\ wrote' = FALSE
                         /\ UNCHANGED logFile
                    [] fault = "none" /\ source \in DOMAIN fs ->
                         /\ fs' = moved
                         /\ sessions' = logged
                         /\ IF current # 0
                            THEN /\ dirs' = Mkdir(made, OutputDir)
                                 /\ logFile' = Save(logged)
                                 /\ wrote' = TRUE
                            ELSE /\ dirs' = made
                                 /\ wrote' = FALSE
                                 /\ UNCHANGED logFile
                         /\ ret' = returned(TRUE)
       /\ UNCHANGED <<current, dry_run, an, result>>

\* the history of the run after undo_last_session took the session at index j
RunAfterUndo(r, ss, j) ==
    IF r.status = "ended" /\ r.idx = j
    THEN [r EXCEPT !.status = "undone", !.idx = 0]
    ELSE IF r.status = "none" THEN r ELSE Void(r)

\* FileMover.undo_last_session; faults are the positions, in processing order,
\* of the operations whose move back raises
UndoLastSession(faults) ==
    LET j == GetLastSession(sessions)
    IN /\ IF j = 0
          THEN /\ faults = {}
               /\ ret' = [call |-> "undo", found |-> FALSE, success |-> FALSE,
                          message |-> [text |-> "No sessions to undo", n |-> 0],
                          moves |-> <<>>]
               /\ wrote' = FALSE
               /\ UNCHANGED <<fs, dirs, logFile, sessions, current, run>>
          ELSE LET session == sessions[j]
                   todo == Reversed(session.operations)
                   acc == UndoLoop(todo, 1, faults,
                                   [fs |-> fs, dirs |-> dirs, moves |-> <<>>,
                                    errors |-> <<>>, outcomes |-> <<>>])
                   cleaned == CleanupEmptyDirs(acc.dirs, DOMAIN acc.fs,
                                               logFile.kind # "absent",
                                               OutputDir, session.output_directory)
                   left == RemoveSession(sessions, session)
               IN /\ faults \subseteq 1..Len(todo)
                  /\ fs' = acc.fs
                  /\ dirs' = Mkdir(cleaned, OutputDir)
                  /\ sessions' = left
                  /\ logFile' = Save(left)
                  /\ current' = Reindex(sessions, current, session)
                  /\ wrote' = TRUE
                  /\ run' = RunAfterUndo(run, sessions, j)
                  /\ ret' = [call |-> "undo", found |-> TRUE, outcomes |-> acc.outcomes,
                             taken |-> j]
                            @@ UndoResult(acc.moves, acc.errors)
    /\ UNCHANGED <<dry_run, an, result>>

----------------------------------------------------------------------------
(* The specification of the move/undo subsystem *)

SourceDirs == {SrcDir}


\* datetime.now().strftime('%Y%m%d_%H%M%S') when a session is created: the
\* second in which the newest session of the log was created, or another one.
\* Session ids are only ever compared for equality, so the least number that
\* no session of the log has stands for every other second.
Seconds(ss) ==
    LET used == {ss[i].session_id : i \in 1..Len(ss)}
        other == CHOOSE n \in 1..(Len(ss) + 1) :
                    n \notin used /\ \A m \in 1..(n - 1) : m \in used
    IN (IF Len(ss) = 0 THEN {} ELSE {ss[Len(ss)].session_id}) \cup {other}

\* the results handed to move_file: a scanned path and the category assigned
Results ==
    {r \in {[path |-> p, category |-> c] : p \in DOMAIN InitialFiles, c \in MoverCategories} :
        r.category = "work" => r.path.dir = SubDir}

\* the plan of a dry run is kept through the real run that follows it
PlanAfterRun == IF ~dry_run /\ pc # "idle" THEN NoPlan ELSE plan

\* the faults of undo_last_session: positions in the session it will take
UndoFaults ==
    LET j == GetLastSession(sessions)
    IN IF j = 0 THEN {{}} ELSE SUBSET (1..Len(sessions[j].operations))

\* organizer.py: a process starts and builds its mover (organize_files or
\* undo_organization); the process before it has ended or was aborted
Construct ==
    /\ NewMover(FALSE)
    /\ pc' = IF ret'.raised THEN "done" ELSE "idle"
    /\ pending' = {}
    /\ plan' = PlanAfterRun

\* the same for a dry run (organize_files with dry_run set)
ConstructDry ==
    /\ NewMover(TRUE)
    /\ pc' = IF ret'.raised THEN "done" ELSE "idle"
    /\ pending' = {}
    /\ plan' = PlanAfterRun

\* organize_files: mover.start_session(source_dir), with the results of the
\* scan, one for each file found
Start ==
    /\ pc = "idle"
    /\ \E d \in SourceDirs, now \in Seconds(sessions) : StartSession(d, now)
    /\ pc' = "moving"
    /\ pending' = DOMAIN fs \cap DOMAIN InitialFiles
    /\ plan' = IF dry_run THEN [made |-> TRUE, fs0 |-> fs, operations |-> <<>>] ELSE plan

\* organize_files: one turn of the loop, mover.move_file(result)
MoveWith(faults) ==
    /\ pc = "moving"
    /\ \E res \in Results, fault \in faults :
          /\ res.path \in pending
          /\ MoveFile(res, fault)
          /\ pending' = pending \ {res.path}
    /\ pc' = pc
    /\ plan' = IF dry_run /\ ret'.returned
               THEN [plan EXCEPT !.operations = Append(@, ret'.op)]
               ELSE plan

Move == MoveWith(Faults)

\* a turn of the loop in which nothing raises
MoveClean == MoveWith({"none"})

\* organize_files: mover.end_session(), after the loop
End ==
    /\ pc = "moving"
    /\ pending = {}
    /\ EndSession
    /\ pc' = "done"
    /\ UNCHANGED <<pending, plan>>

\* undo_organization: mover.undo_last_session()
Undo ==
    /\ pc = "idle"
    /\ \E faults \in UndoFaults : UndoLastSession(faults)
    /\ pc' = "done"
    /\ UNCHANGED <<pending, plan>>

Next == Construct \/ Start \/ Move \/ End \/ Undo

Spec == Init /\ [][Next]_vars

\* organize_files runs on one thread with blocking calls: a process that is
\* not interrupted takes the next turn of its loop and then calls end_session
FairSpec == Spec /\ WF_vars(Move) /\ WF_vars(End)

\* dry runs and real runs in which nothing raises
NextDry == Construct \/ ConstructDry \/ Start \/ MoveClean \/ End

DrySpec == Init /\ [][NextDry]_vars

\* between two processes the log file is damaged from outside
Corrupt ==
    /\ pc = "done"
    /\ logFile.kind = "document"
    /\ \E kind \in CorruptKinds : logFile' = CorruptLog(kind)
    /\ UNCHANGED <<fs, dirs, sessions, current, dry_run, ret, wrote, run, pc, pending,
                   plan, an, result>>

\* real runs in which nothing raises, with a log file that may be damaged
NextLog == Construct \/ Start \/ MoveClean \/ End \/ Corrupt

LogSpec == Init /\ [][NextLog]_vars

\* between two processes the user creates a file in the source tree, at a
\* path that is free
Touch ==
    /\ pc = "done"
    /\ \A q \in DOMAIN fs : fs[q] # "new"
    /\ \E p \in DOMAIN InitialFiles :
          /\ p.dir \in {SrcDir, SubDir}
          /\ p \notin DOMAIN fs
          /\ fs' = fs @@ (p :> "new")
          /\ dirs' = Mkdir(dirs, p.dir)
    /\ run' = IF run.status = "none" THEN run ELSE Void(run)
    /\ UNCHANGED <<logFile, sessions, current, dry_run, ret, wrote, pc, pending, plan,
                   an, result>>

\* real runs and undos, with files that appear between them
NextUser == Construct \/ Start \/ MoveClean \/ End \/ Undo \/ Touch

UserSpec == Init /\ [][NextUser]_vars

\* undo_last_session statement by statement, in a process that runs to the
\* end of the call. While the call runs, ret holds its local variables:
\* the session taken, the number k of operations the loop has processed, the
\* lists moves and errors, and whether _cleanup_empty_dirs has run

\* session = get_last_session(), moves = [], errors = []
UndoBegin ==
    /\ pc = "idle"
    /\ GetLastSession(sessions) # 0
    /\ ret' = [call |-> "undoing", taken |-> GetLastSession(sessions), k |-> 0,
               moves |-> <<>>, errors |-> <<>>, outcomes |-> <<>>, pruned |-> FALSE]
    /\ pc' = "undoing"
    /\ wrote' = FALSE
    /\ run' = IF run.status = "none" THEN run ELSE Void(run)
    /\ UNCHANGED <<fs, dirs, logFile, sessions, current, dry_run, pending, plan, an, result>>

\* one turn of the for loop over reversed(session.operations)
UndoTurn ==
    /\ pc = "undoing"
    /\ ~ret.pruned
    /\ LET todo == Reversed(sessions[ret.taken].operations)
       IN /\ ret.k < Len(todo)
          /\ \E fault \in BOOLEAN :
                LET acc == UndoOne(todo[ret.k + 1], fault,
                                   [fs |-> fs, dirs |-> dirs, moves |-> ret.moves,
                                    errors |-> ret.errors, outcomes |-> ret.outcomes])
                IN /\ fault => todo[ret.k + 1].destination \in DOMAIN fs
                   /\ fs' = acc.fs
                   /\ dirs' = acc.dirs
                   /\ ret' = [ret EXCEPT !.k = @ + 1, !.moves = acc.moves,
                                         !.errors = acc.errors,
                                         !.outcomes = acc.outcomes]
    /\ UNCHANGED <<logFile, sessions, current, dry_run, wrote, run, pc, pending, plan,
                   an, result>>

\* self._cleanup_empty_dirs(Path(session.output_directory)), after the loop
UndoPrune ==
    /\ pc = "undoing"
    /\ ~ret.pruned
    /\ ret.k = Len(sessions[ret.taken].operations)
    /\ dirs' = CleanupEmptyDirs(dirs, DOMAIN fs, logFile.kind # "absent", OutputDir,
                                sessions[ret.taken].output_directory)
    /\ ret' = [ret EXCEPT !.pruned = TRUE]
    /\ UNCHANGED <<fs, logFile, sessions, current, dry_run, wrote, run, pc, pending,
                   plan, an, result>>

\* self.undo_log.remove_session(session) and the return
UndoRemove ==
    /\ pc = "undoing"
    /\ ret.pruned
    /\ LET session == sessions[ret.taken]
           left == RemoveSession(sessions, session)
       IN /\ sessions' = left
          /\ logFile' = Save(left)
          /\ dirs' = Mkdir(dirs, OutputDir)
          /\ current' = Reindex(sessions, current, session)
          /\ ret' = [call |-> "undo", found |-> TRUE, outcomes |-> ret.outcomes,
                     taken |-> ret.taken]
                    @@ UndoResult(ret.moves, ret.errors)
    /\ wrote' = TRUE
    /\ pc' = "done"
    /\ UNCHANGED <<fs, dry_run, run, pending, plan, an, result>>

\* the next process starts when no undo_last_session is under way
Restart ==
    /\ pc # "undoing"
    /\ Construct

NextUndo ==
    Restart \/ Start \/ MoveClean \/ End
        \/ UndoBegin \/ UndoTurn \/ UndoPrune \/ UndoRemove

UndoSpec == Init /\ [][NextUndo]_vars

\* the public methods of a FileMover called in any order by a caller other
\* than organizer.py, in real mode and with nothing raising. The caller scans
\* the files when it builds the mover and hands each of them to move_file at
\* most once
ApiNew ==
    /\ NewMover(FALSE)
    /\ pending' = DOMAIN fs \cap DOMAIN InitialFiles
    /\ UNCHANGED <<pc, plan>>

ApiStart ==
    /\ \E d \in SourceDirs, now \in Seconds(sessions) : StartSession(d, now)
    /\ UNCHANGED <<pc, pending, plan>>

ApiMove ==
    /\ \E res \in Results :
          /\ res.path \in pending
          /\ MoveFile(res, "none")
          /\ pending' = pending \ {res.path}
    /\ UNCHANGED <<pc, plan>>

ApiEnd ==
    /\ EndSession
    /\ UNCHANGED <<pc, pending, plan>>

ApiUndo ==
    /\ UndoLastSession({})
    /\ UNCHANGED <<pc, pending, plan>>

NextApi == ApiNew \/ ApiStart \/ ApiMove \/ ApiEnd \/ ApiUndo

ApiSpec == Init /\ [][NextApi]_vars

----------------------------------------------------------------------------
(* categories.py and analyzer.py. Strings that the code searches or         *)
(* lower-cases are sequences of characters; a value that may be None is a   *)
(* sequence of length 0 (None) or 1; a confidence is in hundredths.         *)

None == <<>>
Some(x) == <<x>>

UpperCase == <<"A", "B", "C", "D", "E", "F", "G", "H", "I", "J", "K", "L", "M",
               "N", "O", "P", "Q", "R", "S", "T", "U", "V", "W", "X", "Y", "Z">>
LowerCase == <<"a", "b", "c", "d", "e", "f", "g", "h", "i", "j", "k", "l", "m",
               "n", "o", "p", "q", "r", "s", "t", "u", "v", "w", "x", "y", "z">>

\* str.lower()
Lower(str) ==
    [i \in 1..Len(str) |->
        IF \E k \in 1..Len(UpperCase) : UpperCase[k] = str[i]
        THEN LowerCase[CHOOSE k \in 1..Len(UpperCase) : UpperCase[k] = str[i]]
        ELSE str[i]]

\* sub in str
Contains(str, sub) ==
    \E i \in 0..(Len(str) - Len(sub)) : SubSeq(str, i + 1, i + Len(sub)) = sub

\* CATEGORIES, in declaration order: the entries the files and the replies
\* below can reach, each with the extensions and keywords they can match
CATEGORIES ==
    << [key |-> <<"w", "o", "r", "k">>,
        extensions |-> {<<".", "d", "o", "c">>},
        keywords |-> {<<"m", "e", "m", "o">>}],
       [key |-> <<"p", "e", "r", "s", "o", "n", "a", "l">>,
        extensions |-> {},
        keywords |-> {<<"n", "o", "t", "e">>, <<"l", "i", "s", "t">>}],
       [key |-> <<"f", "i", "n", "a", "n", "c", "i", "a", "l">>,
        extensions |-> {},
        keywords |-> {<<"t", "a", "x">>}],
       [key |-> <<"p", "d", "f">>,
        extensions |-> {<<".", "p", "d", "f">>},
        keywords |-> {}],
       [key |-> <<"m", "i", "s", "c">>,
        extensions |-> {},
        keywords |-> {}] >>

Keys == {CATEGORIES[i].key : i \in 1..Len(CATEGORIES)}

\* a loop over the registry that stops at the first match: the least of the
\* matching indices, 0 when there is none
FirstCategory(matching) ==
    IF matching = {} THEN 0
    ELSE CHOOSE i \in matching : \A k \in matching : i <= k

\* the value of a lookup that found index i: a category key, or None
Found(i) == IF i = 0 THEN None ELSE Some(CATEGORIES[i].key)

\* a variant that compares the extension as it is written
ExactExtension(extension) ==
    Found(FirstCategory({i \in 1..Len(CATEGORIES) : extension \in CATEGORIES[i].extensions}))

\* get_category_by_extension
GetCategoryByExtension(extension) ==
    LET ext == Lower(extension)
    IN Found(FirstCategory({i \in 1..Len(CATEGORIES) : ext \in CATEGORIES[i].extensions}))

\* a variant in which the last category with a matching keyword wins
LastKeywordCategory(filename) ==
    LET matching == {i \in 1..Len(CATEGORIES) :
                        \E keyword \in CATEGORIES[i].keywords :
                            Contains(Lower(filename), keyword)}
    IN IF matching = {} THEN None
       ELSE Some(CATEGORIES[CHOOSE i \in matching : \A k \in matching : k <= i].key)

\* get_category_by_keywords
GetCategoryByKeywords(filename) ==
    LET name_lower == Lower(filename)
    IN Found(FirstCategory({i \in 1..Len(CATEGORIES) :
                \E keyword \in CATEGORIES[i].keywords : Contains(name_lower, keyword)}))

\* get_fallback_category
GetFallbackCategory == <<"m", "i", "s", "c">>

ExtensionConfidence == 90
KeywordConfidence == 70
FallbackConfidence == 30
DefaultConfidence == 80
FullConfidence == 100

\* FileAnalyzer._get_client, on the fields of the analyzer: the probe is made
\* when _client is None, and its outcome is kept
GetClient(a, probe) ==
    IF a.client = "None"
    THEN IF probe = "up"
         THEN [client |-> "Client", ollama_available |-> "True"]
         ELSE [client |-> "False", ollama_available |-> "False"]
    ELSE a

\* a variant of the property that forgets what an earlier probe found
AlwaysProbe(a, probe) ==
    GetClient([a EXCEPT !.client = "None"], probe)

\* the ollama_available property: probes when the field is None
OllamaAvailable(a, probe) ==
    IF a.ollama_available = "None" THEN GetClient(a, probe) ELSE a

\* an AnalysisResult (without the history fields of the model)
AnalysisResult(category, confidence, method) ==
    [category |-> category, confidence |-> confidence, method |-> method]

\* a value a call returns, or the exception it lets escape
Return(v) == [raised |-> FALSE, value |-> v]
Raise == [raised |-> TRUE]

\* FileAnalyzer._parse_ai_response on a reply of the backend. A reply is text
\* that is no JSON, a JSON value that is no object, or an object; the fields
\* category and confidence of an object may be absent; a confidence is a
\* number or a string that float() rejects
ParseAiResponse(reply) ==
    CASE reply.kind = "text" -> Return(None)
      [] reply.kind = "array" -> Raise
      [] reply.kind = "object" ->
           LET category_name == IF reply.category = None THEN <<>>
                                ELSE Lower(reply.category[1])
               matched == FirstCategory({i \in 1..Len(CATEGORIES) :
                              \/ Contains(category_name, CATEGORIES[i].key)
                              \/ Contains(CATEGORIES[i].key, category_name)})
           IN IF reply.confidence # None /\ reply.confidence[1].kind = "string"
              THEN Return(None)
              ELSE LET confidence == IF reply.confidence = None THEN DefaultConfidence
                                     ELSE reply.confidence[1].value
                       capped == IF confidence < FullConfidence THEN confidence
                                 ELSE FullConfidence
                   IN IF category_name \in Keys
                      THEN Return(Some(AnalysisResult(category_name, capped, "ai")))
                      ELSE IF matched # 0
                      THEN Return(Some(AnalysisResult(CATEGORIES[matched].key, capped, "ai")))
                      ELSE Return(None)

\* FileAnalyzer._analyze_with_ai: client.chat raises or replies; whatever is
\* raised in the call or in the parsing is caught
AnalyzeWithAi(a, reply) ==
    IF a.client # "Client" THEN Return(None)
    ELSE IF reply.kind = "raise" THEN Return(None)
    ELSE LET parsed == ParseAiResponse(reply)
         IN IF parsed.raised THEN Return(None) ELSE parsed

\* file_info.content is truthy
HasContent(file) == file.content # None /\ file.content[1] # <<>>

\* a variant of the tiers below the model in which keywords come first
KeywordFirst(file) ==
    LET by_extension == GetCategoryByExtension(file.extension)
        by_keywords == GetCategoryByKeywords(file.name)
    IN IF by_keywords # None
       THEN AnalysisResult(by_keywords[1], KeywordConfidence, "keyword")
       ELSE IF by_extension # None
       THEN AnalysisResult(by_extension[1], ExtensionConfidence, "extension")
       ELSE AnalysisResult(GetFallbackCategory, FallbackConfidence, "fallback")

\* analyze_file after the model tier: extension, keyword, fallback
RuleBased(file) ==
    LET by_extension == GetCategoryByExtension(file.extension)
        by_keywords == GetCategoryByKeywords(file.name)
    IN IF by_extension # None
       THEN AnalysisResult(by_extension[1], ExtensionConfidence, "extension")
       ELSE IF by_keywords # None
       THEN AnalysisResult(by_keywords[1], KeywordConfidence, "keyword")
       ELSE AnalysisResult(GetFallbackCategory, FallbackConfidence, "fallback")

\* the files handed to analyze_file: name, extension and content preview
Names ==
    { [name |-> <<"T", "a", "x", ".", "P", "D", "F">>, extension |-> <<".", "P", "D", "F">>],
      [name |-> <<"T", "A", "X">>, extension |-> <<>>],
      [name |-> <<"m", "e", "m", "o", ".", "d", "o", "c">>, extension |-> <<".", "d", "o", "c">>],
      [name |-> <<"t", "a", "x", "n", "o", "t", "e">>, extension |-> <<>>],
      [name |-> <<"z", "z">>, extension |-> <<>>] }

Contents == {None, Some(<<>>), Some(<<"x">>)}

FileInfos ==
    {[name |-> n.name, extension |-> n.extension, content |-> c] : n \in Names, c \in Contents}

\* what the backend may answer to a chat call
ReplyCategories ==
    {None, Some(<<"W", "o", "r", "k">>), Some(<<"p", "d", "f", "s">>),
     Some(<<"m", "i", "s", "c">>), Some(<<"q">>)}

ReplyConfidences ==
    {None, Some([kind |-> "number", value |-> 95]), Some([kind |-> "number", value |-> 30]),
     Some([kind |-> "number", value |-> 150]), Some([kind |-> "number", value |-> 0 - 50]),
     Some([kind |-> "string"])}

Replies ==
    {[kind |-> "raise"], [kind |-> "text"], [kind |-> "array"]}
    \cup {[kind |-> "object", category |-> c, confidence |-> x] :
             c \in ReplyCategories, x \in ReplyConfidences}

NoReply == [kind |-> "none"]

\* FileAnalyzer.__init__
NewAnalyzer ==
    /\ an' = NoAnalyzer
    /\ result' = NoResult
    /\ UNCHANGED <<moverVars, organizerVars, plan>>

\* organizer.analyze_files in fast mode, on the analyzer it has just built
FastMode ==
    /\ an = NoAnalyzer
    /\ result = NoResult
    /\ an' = [an EXCEPT !.ollama_available = "False"]
    /\ UNCHANGED <<result, moverVars, organizerVars, plan>>

\* organizer.analyze_files outside fast mode: it reads ollama_available of the
\* analyzer it has just built, to report the status, before the first file
CheckStatus ==
    /\ an = NoAnalyzer
    /\ result = NoResult
    /\ \E probe \in {"up", "down"} : an' = OllamaAvailable(an, probe)
    /\ UNCHANGED <<result, moverVars, organizerVars, plan>>

\* FileAnalyzer.analyze_file. probe is what a probe of the backend finds, reply
\* what the backend answers; each is drawn only when the call gets that far
AnalyzeFile(file, probe, reply) ==
    LET probing == HasContent(file) /\ an.ollama_available = "None"
        a1 == IF HasContent(file) THEN OllamaAvailable(an, probe) ELSE an
        asking == HasContent(file) /\ a1.ollama_available = "True"
        a2 == IF asking THEN GetClient(a1, probe) ELSE a1
        ai == IF asking THEN AnalyzeWithAi(a2, reply) ELSE Return(None)
        history == [file |-> file, probed |-> probing, asked |-> asking, reply |-> reply]
    IN /\ ~probing => probe = "up"
       /\ IF asking /\ a2.client = "Client" THEN reply \in Replies ELSE reply = NoReply
       /\ an' = a2
       /\ result' = IF ai.raised THEN [method |-> "raised"] @@ history
                    ELSE IF ai.value # None THEN ai.value[1] @@ history
                    ELSE RuleBased(file) @@ history
       /\ UNCHANGED <<moverVars, organizerVars, plan>>

Analyze ==
    \E file \in FileInfos, probe \in {"up", "down"}, reply \in Replies \cup {NoReply} :
        AnalyzeFile(file, probe, reply)

NextAnalyzer == NewAnalyzer \/ FastMode \/ CheckStatus \/ Analyze

AnalyzerSpec == Init /\ [][NextAnalyzer]_vars

----------------------------------------------------------------------------
(* Steps of the organizer, as seen from the two states of a step *)

MoveStep == pc = "moving" /\ pc' = "moving" /\ ret'.call = "move"
UndoStep == pc = "idle" /\ pc' = "done" /\ ret'.call = "undo"
DryStep == dry_run /\ pc' \in {"moving", "done"} /\ ret'.call \in {"start", "move", "end"}

Completed(ss) == {i \in 1..Len(ss) : ss[i].completed}

\* the directories below the output root that hold nothing
EmptyOutputDirs ==
    {d \in dirs : /\ d # OutputDir
                  /\ OutputDir \in Ancestors(d)
                  /\ IsEmptyDir(dirs, DOMAIN fs, logFile.kind # "absent", d)}

WithCounter(path, k) == [path EXCEPT !.name.sfx = Append(@, k)]

----------------------------------------------------------------------------
(* C1 *)

\* C1: after a real-mode run (start_session, move_file for each scanned file,
\* end_session) and the undo_last_session that follows it, with no move back
\* made to fail, every path holds the file it held before the run and no
\* directory below the output root is left empty.
C1_RoundTrip ==
    (/\ pc = "done"
     /\ ret.call = "undo"
     /\ ret.found
     /\ run.status = "undone"
     /\ \A k \in 1..Len(ret.outcomes) : ret.outcomes[k] # "failed")
    => /\ ret.success
       /\ fs = run.fs0
       /\ EmptyOutputDirs = {}

\* a run of two moves, one of them to a name with a collision counter, undone
C1_Witness ==
    /\ pc = "done"
    /\ ret.call = "undo"
    /\ ret.found
    /\ run.status = "undone"
    /\ ret.success
    /\ Len(ret.moves) >= 2
    /\ \E k \in 1..Len(ret.moves) : ret.moves[k][1].name.sfx # <<>>
    /\ \E k \in 1..Len(ret.moves) : ret.moves[k][1].dir = "src/Organized/Documents/Work"

----------------------------------------------------------------------------
(* C2 *)

\* the scanned path that the move_file of this step was given
Moved == CHOOSE p \in pending : p \notin pending'

\* C2: a real-mode move_file never replaces a file that is already there; the
\* destination is outputRoot/category.path/name when that is free, and else
\* stem_k.ext for the smallest k >= 1 that is free; the destination differs
\* from every destination already recorded in the session.
C2_Collision ==
    [][ (MoveStep /\ ~dry_run) =>
          /\ \A p \in DOMAIN fs \ {Moved} : p \in DOMAIN fs' /\ fs'[p] = fs[p]
          /\ ret'.returned =>
               LET op == ret'.op
                   base == PathOf(Join(OutputDir, CategoryPath(op.category)), Moved.name)
               IN /\ op.source = Moved
                  /\ op.destination \notin DOMAIN fs
                  /\ op.destination \in DOMAIN fs'
                  /\ fs'[op.destination] = fs[Moved]
                  /\ IF base \notin DOMAIN fs
                     THEN op.destination = base
                     ELSE \E k \in 1..(Cardinality(DOMAIN fs) + 1) :
                             /\ op.destination = WithCounter(base, k)
                             /\ \A m \in 1..(k - 1) : WithCounter(base, m) \in DOMAIN fs
                  /\ current > 0 =>
                       /\ sessions'[current].operations
                            = Append(sessions[current].operations, op)
                       /\ \A i \in 1..Len(sessions[current].operations) :
                            sessions[current].operations[i].destination # op.destination
      ]_vars

\* a session whose moves went to a_1 and then to a_2
C2_Witness ==
    /\ pc = "moving"
    /\ ret.call = "move"
    /\ ret.returned
    /\ ret.op.destination.name.sfx = <<2>>
    /\ current > 0
    /\ \E i \in 1..Len(sessions[current].operations) :
          /\ sessions[current].operations[i].destination.name.sfx = <<1>>
          /\ sessions[current].operations[i].destination.dir = ret.op.destination.dir

----------------------------------------------------------------------------
(* C3 *)

\* C3: undo_last_session attempts every operation of the session it took,
\* whatever happened to the earlier ones; a destination that is missing and a
\* move back that fails each add one error; success is false exactly when
\* there is at least one error.
C3_ContinueOnError ==
    [][ (UndoStep /\ ret'.found) =>
          LET ops == sessions[ret'.taken].operations
              out == ret'.outcomes
              nerr == Cardinality({k \in 1..Len(out) : out[k] # "moved"})
          IN /\ Len(out) = Len(ops)
             /\ ret'.success <=> nerr = 0
             /\ Len(ret'.moves) = Len(out) - nerr
             /\ ~ret'.success => ret'.message.n = nerr
             /\ (Len(out) > 0 /\ out[Len(out)] = "moved") => ops[1].source \in DOMAIN fs'
      ]_vars

\* an undo whose first operation gave an error and whose second was restored
C3_Witness ==
    /\ pc = "done"
    /\ ret.call = "undo"
    /\ ret.found
    /\ Len(ret.outcomes) >= 2
    /\ ret.outcomes[1] # "moved"
    /\ ret.outcomes[2] = "moved"
    /\ ~ret.success

----------------------------------------------------------------------------
(* C4 *)

\* C4: the session undo_last_session takes is a completed one, and when the
\* call returns no session with its id is in the log, in memory or in the
\* file, whether every file was restored, some or none.
C4_SessionRemoved ==
    [][ (UndoStep /\ ret'.found) =>
          LET session == sessions[ret'.taken]
          IN /\ session.completed
             /\ \A i \in 1..Len(sessions') : sessions'[i].session_id # session.session_id
             /\ logFile'.kind = "document"
             /\ \A i \in 1..Len(logFile'.sessions) :
                   logFile'.sessions[i].session_id # session.session_id
      ]_vars

\* an undo that took a session of two operations and restored none of them
C4_Witness ==
    /\ pc = "done"
    /\ ret.call = "undo"
    /\ ret.found
    /\ Len(ret.outcomes) >= 2
    /\ ret.moves = <<>>
    /\ wrote

----------------------------------------------------------------------------
(* C5 *)

\* C5: get_last_session returns the completed session that is latest in the
\* log, and nothing when the log has no completed session: a session created
\* and not completed is never returned, even as the newest entry.
C5_LastCompleted ==
    LET j == GetLastSession(sessions)
    IN IF Completed(sessions) = {}
       THEN j = 0
       ELSE /\ j \in Completed(sessions)
            /\ \A i \in Completed(sessions) : i <= j

\* an undo took a completed session and left a newer one that is not completed
C5_Witness ==
    /\ pc = "done"
    /\ ret.call = "undo"
    /\ ret.found
    /\ ret.taken <= Len(sessions)
    /\ ~sessions[ret.taken].completed
    /\ GetLastSession(sessions) = 0

----------------------------------------------------------------------------
(* C6 *)

\* C6: with dry_run set, start_session, move_file and end_session leave every
\* file where it is, create no directory, neither create nor rewrite the log
\* file and add no session or operation to the log; move_file still returns
\* the operation it computed.
C6_DryRunFrame ==
    [][ DryStep =>
          /\ UNCHANGED <<fs, dirs, logFile, sessions>>
          /\ ~wrote'
          /\ ret'.call = "move" =>
               /\ ret'.returned
               /\ ret'.op.source = Moved
               /\ ret'.op.destination.dir = Join(OutputDir, CategoryPath(ret'.op.category))
      ]_vars

\* a dry run of two files has ended and there is still no log file
C6_Witness ==
    /\ dry_run
    /\ pc = "done"
    /\ ret.call = "end"
    /\ plan.made
    /\ Len(plan.operations) >= 2
    /\ logFile.kind = "absent"

----------------------------------------------------------------------------
(* C7 *)

\* C7: for the same results and the same initial filesystem, the destination
\* move_file computes for each file in a dry run is the destination the file
\* is moved to in the real run.
C7_SamePlan ==
    (/\ pc = "done"
     /\ ~dry_run
     /\ run.status = "ended"
     /\ plan.made
     /\ plan.fs0 = run.fs0
     /\ Len(plan.operations) = Len(sessions[run.idx].operations)
     /\ \A k \in 1..Len(plan.operations) :
           /\ plan.operations[k].source = sessions[run.idx].operations[k].source
           /\ plan.operations[k].category = sessions[run.idx].operations[k].category)
    => \A k \in 1..Len(plan.operations) :
          plan.operations[k].destination = sessions[run.idx].operations[k].destination

----------------------------------------------------------------------------
(* C8 *)

\* a mover is built: FileMover.__init__ and with it UndoLog._load
NewStep == pc' = "idle" /\ ret'.call = "new"

\* C8: undo_last_session on a log with no completed session, or with no log
\* file, returns success false, no restored move and the message that there
\* is nothing to undo; no file is moved, no directory removed, and the log
\* file is neither created nor rewritten, by the call or by building the mover.
C8_NothingToUndo ==
    [][ /\ NewStep =>
             /\ UNCHANGED <<fs, dirs, logFile>>
             /\ logFile.kind = "absent" => sessions' = <<>>
        /\ (UndoStep /\ Completed(sessions) = {}) =>
             /\ ~ret'.found
             /\ ~ret'.success
             /\ ret'.moves = <<>>
             /\ ret'.message.text = "No sessions to undo"
             /\ ~wrote'
             /\ UNCHANGED <<fs, dirs, logFile, sessions>>
      ]_vars

\* an undo found nothing in a log that holds a session
C8_Witness ==
    /\ pc = "done"
    /\ ret.call = "undo"
    /\ ~ret.found
    /\ Len(sessions) > 0
    /\ logFile.kind = "document"
    /\ ~wrote

----------------------------------------------------------------------------
(* C9 *)

\* C9: when a real-mode move_file fails and returns no operation, the file is
\* still at its source path, no operation for it is appended to the session,
\* and the earlier moves of the run stay in place and recorded.
C9_SkipOnlyThatFile ==
    [][ (MoveStep /\ ~dry_run /\ ~ret'.returned) =>
          /\ fs' = fs
          /\ sessions' = sessions
          /\ logFile' = logFile
      ]_vars

----------------------------------------------------------------------------
(* C10 *)

ExtensionMatches(file) ==
    \E i \in 1..Len(CATEGORIES) : Lower(file.extension) \in CATEGORIES[i].extensions

KeywordMatches(file) ==
    \E i \in 1..Len(CATEGORIES) : \E keyword \in CATEGORIES[i].keywords :
        Contains(Lower(file.name), keyword)

\* C10: analyze_file lets no exception escape and returns one result, from the
\* first tier that has one in the order model, extension, keyword, fallback;
\* the backend is asked only for a file with a non-empty content preview and
\* with the backend available; the result is the fallback one, with the
\* fallback category and confidence 0.3, exactly when no tier above has one.
C10_Cascade ==
    result # NoResult =>
       /\ result.method \in {"ai", "extension", "keyword", "fallback"}
       /\ result.asked => HasContent(result.file) /\ an.ollama_available = "True"
       /\ result.method = "ai" =>
             /\ result.asked
             /\ result.reply.kind = "object"
             /\ result.category \in Keys
       /\ (result.asked /\ result.reply.kind \in {"raise", "text", "array"})
             => result.method # "ai"
       /\ result.method = "extension" =>
             /\ ExtensionMatches(result.file)
             /\ result.confidence = ExtensionConfidence
       /\ result.method = "keyword" =>
             /\ ~ExtensionMatches(result.file)
             /\ KeywordMatches(result.file)
             /\ result.confidence = KeywordConfidence
       /\ result.method = "fallback" <=>
             /\ result.method # "ai"
             /\ ~ExtensionMatches(result.file)
             /\ ~KeywordMatches(result.file)
       /\ result.method = "fallback" =>
             /\ result.category = GetFallbackCategory
             /\ result.confidence = FallbackConfidence

\* the backend was asked, its reply was no object, and the file had neither a
\* registered extension nor a keyword: the fallback result
C10_Witness ==
    /\ result # NoResult
    /\ result.method = "fallback"
    /\ result.asked
    /\ result.reply.kind = "array"
    /\ an.ollama_available = "True"

----------------------------------------------------------------------------
(* C11 *)

\* the registry indices whose extension set has the lower-cased extension
ExtensionIndices(file) ==
    {i \in 1..Len(CATEGORIES) : Lower(file.extension) \in CATEGORIES[i].extensions}

\* C11 as stated: for every file whose extension is registered, analyze_file
\* returns method extension, confidence 0.9 and a category whose extension set
\* contains the lower-cased extension.
C11_ExtensionAlways ==
    (result # NoResult /\ ExtensionMatches(result.file)) =>
       /\ result.method = "extension"
       /\ result.confidence = ExtensionConfidence
       /\ \E i \in ExtensionIndices(result.file) : result.category = CATEGORIES[i].key

\* C11, amended: for every file whose extension is registered and for which
\* the model tier gave no result, analyze_file returns method extension,
\* confidence 0.9 and the first category in declaration order whose extension
\* set contains the lower-cased extension.
C11_ExtensionTier ==
    (result # NoResult /\ ExtensionMatches(result.file) /\ result.method # "ai") =>
       /\ result.method = "extension"
       /\ result.confidence = ExtensionConfidence
       /\ \E i \in ExtensionIndices(result.file) :
             /\ result.category = CATEGORIES[i].key
             /\ \A k \in ExtensionIndices(result.file) : i <= k

\* the backend was asked and gave nothing usable for a file whose extension is
\* written in upper case: the extension tier classified it
C11_Witness ==
    /\ result # NoResult
    /\ result.method = "extension"
    /\ result.asked
    /\ result.file.extension # Lower(result.file.extension)
    /\ result.category = <<"p", "d", "f">>

----------------------------------------------------------------------------
(* C12 *)

\* the registry indices with a keyword that the lower-cased name contains
KeywordIndices(file) ==
    {i \in 1..Len(CATEGORIES) :
        \E keyword \in CATEGORIES[i].keywords : Contains(Lower(file.name), keyword)}

\* C12 as stated: for every file with no extension match whose name contains,
\* case-insensitively, a keyword of some category, analyze_file returns method
\* keyword, confidence 0.7 and the first category in declaration order that
\* has a matching keyword.
C12_KeywordAlways ==
    (result # NoResult /\ ~ExtensionMatches(result.file) /\ KeywordMatches(result.file)) =>
       /\ result.method = "keyword"
       /\ result.confidence = KeywordConfidence
       /\ \E i \in KeywordIndices(result.file) :
             /\ result.category = CATEGORIES[i].key
             /\ \A k \in KeywordIndices(result.file) : i <= k

\* C12, amended: the same for every such file for which the model tier gave
\* no result.
C12_KeywordTier ==
    (/\ result # NoResult
     /\ ~ExtensionMatches(result.file)
     /\ KeywordMatches(result.file)
     /\ result.method # "ai") =>
       /\ result.method = "keyword"
       /\ result.confidence = KeywordConfidence
       /\ \E i \in KeywordIndices(result.file) :
             /\ result.category = CATEGORIES[i].key
             /\ \A k \in KeywordIndices(result.file) : i <= k

\* a name with keywords of two categories got the one declared first, after
\* the backend was asked and gave nothing usable
C12_Witness ==
    /\ result # NoResult
    /\ result.method = "keyword"
    /\ result.asked
    /\ Cardinality(KeywordIndices(result.file)) >= 2
    /\ result.category = <<"p", "e", "r", "s", "o", "n", "a", "l">>

----------------------------------------------------------------------------
(* C13 *)

\* C13: the confidence of every result is within [0.0, 1.0]; a model-tier
\* result has its confidence clamped into that range whatever the backend
\* reported, values above 1 and negative values included.
C13_ConfidenceInRange ==
    result # NoResult =>
       /\ 0 <= result.confidence
       /\ result.confidence <= FullConfidence

----------------------------------------------------------------------------
(* C14 *)

\* the reply is a JSON object whose category, lower-cased, is the key of
\* registry entry i or contains it or is contained in it
Names_(reply, i) ==
    /\ reply.kind = "object"
    /\ reply.category # None
    /\ LET name == Lower(reply.category[1])
       IN IF name \in Keys
          THEN name = CATEGORIES[i].key
          ELSE \/ Contains(name, CATEGORIES[i].key)
               \/ Contains(CATEGORIES[i].key, name)

\* C14: a reply gives a model-tier result only when it is a JSON object whose
\* category names a registry entry, exactly or else by containment; every
\* other reply (text that does not parse, a value that is no object, an object
\* without a category, a category that matches no entry, an error of the
\* backend) is no answer: nothing is raised and the file is classified by the
\* extension, keyword or fallback tier.
C14_NoAnswer ==
    (result # NoResult /\ result.asked) =>
       /\ result.method \in {"ai", "extension", "keyword", "fallback"}
       /\ result.method = "ai" =>
             \E i \in 1..Len(CATEGORIES) :
                /\ Names_(result.reply, i)
                /\ result.category = CATEGORIES[i].key
       /\ result.method # "ai" =>
             AnalysisResult(result.category, result.confidence, result.method)
                = RuleBased(result.file)

----------------------------------------------------------------------------
(* C15 *)

\* C15: with a log file that exists and cannot be read or does not parse into
\* the expected document, building the log does not fail and the log starts
\* with no session; the next mutating call rewrites the file, which then
\* holds nothing of the earlier history.
C15_CorruptLogStartsEmpty ==
    [][ /\ (ret'.call = "new" /\ logFile.kind \in CorruptKinds) =>
             /\ ~ret'.raised
             /\ sessions' = <<>>
             /\ UNCHANGED <<fs, dirs, logFile>>
        /\ (ret'.call = "start" /\ pc = "idle" /\ logFile.kind \in CorruptKinds) =>
             /\ logFile'.kind = "document"
             /\ Len(logFile'.sessions) = 1
             /\ Load(logFile') = sessions'
      ]_vars

----------------------------------------------------------------------------
(* C16 *)

\* the persisted log holds a session that is not marked completed
IncompleteInLog ==
    \E i \in 1..Len(logFile.sessions) : ~logFile.sessions[i].completed

\* C16: every session a real-mode run created is eventually marked completed,
\* also when the run skipped files or was aborted before its last file.
C16_EventuallyCompleted == IncompleteInLog ~> ~IncompleteInLog

----------------------------------------------------------------------------
(* C17 *)

\* a step of analyze_file: it leaves a result
AnalyzeStep == result' # NoResult

FailingReplies == {"raise", "text", "array"}

\* C17: the availability of the backend is probed at most once per analyzer
\* and then kept: once the state is no longer unknown no call changes it;
\* after a failed probe no file is sent to the backend; after a successful
\* probe every file with content is sent, a failing call gives that file to
\* the rules and leaves the analyzer as it was, without a new probe.
C17_ProbeCached ==
    [][/\ (an.ollama_available # "None" /\ an' # NoAnalyzer) => an' = an
       /\ AnalyzeStep =>
            /\ result'.probed => an.ollama_available = "None"
            /\ an.ollama_available = "False" =>
                  /\ ~result'.asked
                  /\ result'.reply = NoReply
                  /\ result'.method # "ai"
            /\ an.ollama_available = "True" =>
                  /\ an.client = "Client"
                  /\ result'.asked = HasContent(result'.file)
            /\ (result'.asked /\ result'.reply.kind \in FailingReplies) =>
                  /\ an'.ollama_available = "True"
                  /\ an'.client = "Client"
                  /\ AnalysisResult(result'.category, result'.confidence, result'.method)
                        = RuleBased(result'.file)]_vars

\* a call of the backend failed on an analyzer whose probe, made for an
\* earlier file, had succeeded; the analyzer still holds its client
C17_Witness ==
    /\ result # NoResult
    /\ result.asked
    /\ ~result.probed
    /\ result.reply.kind = "raise"
    /\ result.method = "keyword"
    /\ an.ollama_available = "True"
    /\ an.client = "Client"

----------------------------------------------------------------------------
(* C18 *)

\* the session is in the log as it was
Kept(ss, session) == \E j \in 1..Len(ss) : ss[j] = session

\* no session of the log has the id of the session
Removed(ss, session) == \A j \in 1..Len(ss) : ss[j].session_id # session.session_id

\* C18: once a session is marked completed no call of the mover appends an
\* operation to it or changes a field of it; it stays in the log as it is
\* until undo_last_session removes it.
C18_CompletedReadOnly ==
    [][\A i \in 1..Len(sessions) :
          sessions[i].completed =>
             \/ Kept(sessions', sessions[i])
             \/ /\ ret'.call = "undo"
                /\ Removed(sessions', sessions[i])]_vars

----------------------------------------------------------------------------
(* C19 *)

\* the last call of the mover was one that reached a mutating call of the log
\* and returned: create_session, add_operation, complete_session or
\* remove_session
Mutated ==
    \/ ret.call = "start" /\ ~dry_run
    \/ ret.call = "move" /\ ~dry_run /\ ret.returned /\ current # 0
    \/ ret.call = "end" /\ ~dry_run /\ current # 0
    \/ ret.call = "undo" /\ ret.found

\* C19: after every mutating call of the log that returned, the document in
\* the file is the whole log in memory: a log loaded from the file holds the
\* same sessions in the same order, each with the same fields, the same
\* completed flag and the same operations in the order they were appended.
C19_PersistedEqualsMemory ==
    Mutated =>
       /\ wrote
       /\ logFile.kind = "document"
       /\ ~LoadRaises(logFile)
       /\ Len(Load(logFile)) = Len(sessions)
       /\ \A i \in 1..Len(sessions) :
             /\ Load(logFile)[i].session_id = sessions[i].session_id
             /\ Load(logFile)[i].source_directory = sessions[i].source_directory
             /\ Load(logFile)[i].output_directory = sessions[i].output_directory
             /\ Load(logFile)[i].completed = sessions[i].completed
             /\ Load(logFile)[i].operations = sessions[i].operations

\* add_operation has just appended a second operation to the active session
\* of a log that also holds a completed session
C19_Witness ==
    /\ ret.call = "move"
    /\ ret.returned
    /\ Len(sessions) = 2
    /\ current = 2
    /\ sessions[1].completed
    /\ Len(sessions[1].operations) >= 1
    /\ ~sessions[2].completed
    /\ Len(sessions[2].operations) = 2
    /\ sessions[2].operations[1] # sessions[2].operations[2]
    /\ Load(logFile) = sessions

----------------------------------------------------------------------------
(* C20 *)

\* the operation the loop of undo_last_session processes in its next turn,
\* when the operations are counted in the order they were appended
Turn(k) ==
    LET ops == sessions[ret.taken].operations
    IN ops[Len(ops) - k]

\* what a turn of the loop adds to moves or to errors names the operation
Records(r, operation) ==
    LET outcome == r.outcomes[Len(r.outcomes)]
    IN IF outcome = "moved"
       THEN r.moves[Len(r.moves)] = <<operation.destination, operation.source>>
       ELSE r.errors[Len(r.errors)].path = operation.destination

\* C20: undo_last_session takes the operations of the session in reverse
\* append order, the last one first and each one only after all operations
\* appended after it were attempted; directories are pruned only after all
\* operations were processed, and the session leaves the log only after the
\* pruning.
C20_ReverseThenPruneThenRemove ==
    [][/\ (ret'.call = "undoing" /\ ret.call # "undoing") =>
             ret'.k = 0 /\ ret'.outcomes = <<>> /\ ~ret'.pruned
       /\ (ret.call = "undoing" /\ ret'.call = "undoing" /\ ret'.k # ret.k) =>
             /\ ret'.k = ret.k + 1
             /\ ret.k = Len(ret.outcomes)
             /\ ret'.k = Len(ret'.outcomes)
             /\ Records(ret', Turn(ret.k))
             /\ ~ret.pruned /\ ~ret'.pruned
             /\ sessions' = sessions
       /\ (\E d \in dirs : d \notin dirs') =>
             /\ ret.call = "undoing" /\ ret'.call = "undoing"
             /\ ret.k = Len(sessions[ret.taken].operations)
             /\ ~ret.pruned /\ ret'.pruned
             /\ fs' = fs
             /\ sessions' = sessions
       /\ Len(sessions') < Len(sessions) =>
             /\ ret.call = "undoing" /\ ret.pruned
             /\ ret.k = Len(sessions[ret.taken].operations)
             /\ ret'.call = "undo"
             /\ Removed(sessions', sessions[ret.taken])]_vars

\* the loop has processed two operations, one moved back and one whose move
\* raised, a category directory was pruned, and the session is still in the log
C20_Witness ==
    /\ pc = "undoing"
    /\ ret.call = "undoing"
    /\ ret.pruned
    /\ ret.k = 2
    /\ ret.outcomes = <<"failed", "moved">>
    /\ sessions[ret.taken].completed
    /\ \E i \in 1..2 : sessions[ret.taken].operations[i].destination.dir \notin dirs

----------------------------------------------------------------------------
(* C21 *)

\* the log without its j-th session, the others in their order
Without(ss, j) == [i \in 1..(Len(ss) - 1) |-> IF i < j THEN ss[i] ELSE ss[i + 1]]

\* C21: an undo removes from the log the session it took and no other: every
\* other session, completed or not, created before or after it, stays in the
\* log as it was, and the remaining sessions keep their order.
C21_OnlyThatSession ==
    [][(UndoStep /\ ret'.found) => sessions' = Without(sessions, ret'.taken)]_vars

----------------------------------------------------------------------------
(* C22 *)

\* a session of the log holds the operation
Logged(ss, operation) ==
    \E i \in 1..Len(ss) : \E k \in 1..Len(ss[i].operations) :
        ss[i].operations[k] = operation

\* C22: whatever the order of the calls on a mover in real mode, a file that
\* move_file has moved into the output tree has its operation, with its source
\* and its destination, in a session of the log, in memory and in the file.
C22_NoUnloggedMove ==
    [][(ret'.call = "move" /\ ~dry_run /\ fs' # fs) =>
          /\ ret'.returned
          /\ ret'.op.source \notin DOMAIN fs'
          /\ ret'.op.destination \in DOMAIN fs'
          /\ Logged(sessions', ret'.op)
          /\ logFile'.kind = "document"
          /\ Logged(Load(logFile'), ret'.op)]_vars

----------------------------------------------------------------------------
(* C23 *)

\* the destinations recorded in the session
Destinations(session) ==
    {session.operations[k].destination : k \in 1..Len(session.operations)}

\* C23: undo_last_session destroys no data: a file that is not at a recorded
\* destination of the session, such as a file that stands at the original
\* source path of an operation, is afterwards where it was with the content it
\* had; the content of every file is still somewhere; and no directory that
\* holds a file is removed.
C23_UndoKeepsData ==
    [][(UndoStep /\ ret'.found) =>
          /\ \A p \in DOMAIN fs \ Destinations(sessions[ret'.taken]) :
                p \in DOMAIN fs' /\ fs'[p] = fs[p]
          /\ \A p \in DOMAIN fs : \E q \in DOMAIN fs' : fs'[q] = fs[p]
          /\ \A d \in dirs \ dirs' :
                ~ \E p \in DOMAIN fs' : d \in Ancestors(p.dir)]_vars

============================================================================
